---- MODULE Spec2Model ----
(***************************************************************************)
(* Model of src/Usuario.ts (lines 1-466; lines 468-936 are a commented     *)
(* copy of the same classes): the Usuario entity, the in-memory            *)
(* repository, and the five use cases of UsuarioService.                   *)
(*                                                                         *)
(* Strings are sequences of one-character strings, so that trim(), the     *)
(* e-mail regular expression and JavaScript truthiness are computed, not   *)
(* assumed.  Each async use case is cut at its await points: a port call   *)
(* of the in-memory repository runs synchronously when it is called (the   *)
(* Map is read or written at that moment) and the caller is resumed in a   *)
(* later step, so other calls may run in between.                          *)
(***************************************************************************)
EXTENDS Integers, Sequences, FiniteSets, TLC

VARIABLES
    usuarios,     \* RepositorioUsuarioEnMemoria.usuarios: the Map, in insertion order
    reloj,        \* the value new Date() returns now
    iniciadas,    \* number of use-case calls started so far
    pc,           \* per call slot: the await point the call is suspended at
    datos,        \* per call slot: the use case and its request DTO
    locales,      \* per call slot: the local constants of the async function
    notificadas,  \* per call slot: invocations of the ServicioNotificacion port
    resultado,    \* per call slot: what the returned promise settled with
    log           \* per call slot: what the call wrote to the Logger port

vars == <<usuarios, reloj, iniciadas, pc, datos, locales, notificadas, resultado, log>>

----------------------------------------------------------------------------
(* Bounds of the model *)

\* new Date() takes the values 0..MaxReloj
MaxReloj == 1

\* use-case calls started in one behaviour
MaxLlamadas == 3

\* use-case calls started in one behaviour when termination is checked
MaxLlamadasJuntas == 2

\* call slots: use cases that may be in flight together
Procs == {1, 2}

\* the values generarId() can return
Ids == {"user_1", "user_2"}

\* the value of an optional DTO field that is absent (undefined); no string
\* of one-character elements equals it
Undefined == <<"undefined">>

\* names a create request may carry: "" and "ab"
NombresCrear == { <<>>, <<"a", "b">> }

\* e-mails a create request may carry: "a@b" (no dot), "a@b.c", "d@b.c"
EmailsCrear == { <<"a", "@", "b">>, <<"a", "@", "b", ".", "c">>, <<"d", "@", "b", ".", "c">> }

\* names an update request may carry: absent, "", " a" (trimmed length 1), "cd"
NombresActualizar == { Undefined, <<>>, <<" ", "a">>, <<"c", "d">> }

\* e-mails an update request may carry: absent, "", "a@b", "a@b.c", "d@b.c"
EmailsActualizar == { Undefined, <<>> } \cup EmailsCrear

\* names given to the constructor alone: "", " ", "a", " a ", "ab", " ab", "a b", "abc"
NombresConstructor ==
    { <<>>,
      <<" ">>,
      <<"a">>,
      <<" ", "a", " ">>,
      <<"a", "b">>,
      <<" ", "a", "b">>,
      <<"a", " ", "b">>,
      <<"a", "b", "c">> }

\* e-mails given to the constructor alone: "", "a@b", "a@b.c", "@b.c", "a@.c", "a@b.",
\* "a b@c.d", "a@b@c.d", "a@b.c.d", "ab.c", "a@b .c"
EmailsConstructor ==
    { <<>>,
      <<"a", "@", "b">>,
      <<"a", "@", "b", ".", "c">>,
      <<"@", "b", ".", "c">>,
      <<"a", "@", ".", "c">>,
      <<"a", "@", "b", ".">>,
      <<"a", " ", "b", "@", "c", ".", "d">>,
      <<"a", "@", "b", "@", "c", ".", "d">>,
      <<"a", "@", "b", ".", "c", ".", "d">>,
      <<"a", "b", ".", "c">>,
      <<"a", "@", "b", " ", ".", "c">> }

\* the ids and the users given to the repository alone
IdsRepositorio == Ids \cup {"user_3"}

UsuariosRepositorio ==
    { [id |-> i, nombre |-> <<"a", "b">>, email |-> e, fechaCreacion |-> 0] :
        i \in IdsRepositorio,
        e \in { <<"a", "@", "b", ".", "c">>, <<"d", "@", "b", ".", "c">> } }

----------------------------------------------------------------------------
(* JavaScript strings *)

\* \s of the regular expression and of String.prototype.trim
EsEspacio(c) == c \in {" "}

\* a string is falsy iff it is undefined or empty
Truthy(s) == s # Undefined /\ s # <<>>

RECURSIVE TrimStart(_)
TrimStart(s) ==
    IF s = <<>> THEN <<>>
    ELSE IF EsEspacio(Head(s)) THEN TrimStart(Tail(s)) ELSE s

RECURSIVE TrimEnd(_)
TrimEnd(s) ==
    IF s = <<>> THEN <<>>
    ELSE IF EsEspacio(s[Len(s)]) THEN TrimEnd(SubSeq(s, 1, Len(s) - 1)) ELSE s

Trim(s) == TrimEnd(TrimStart(s))

\* s matches [^\s@]+
SinEspacioNiArroba(s) ==
    /\ Len(s) >= 1
    /\ \A i \in 1..Len(s) : ~EsEspacio(s[i]) /\ s[i] # "@"

----------------------------------------------------------------------------
(* Usuario (domain entity) *)

MsgNombre == "El nombre debe tener al menos 2 caracteres"
MsgEmail == "El email debe tener un formato valido"

\* the value of a Usuario | null that is null
Null == [id |-> "", nombre |-> <<>>, email |-> <<>>, fechaCreacion |-> -1]

\* /^[^\s@]+@[^\s@]+\.[^\s@]+$/.test(email)
esEmailValido(email) ==
    \E i \in 1..Len(email) : \E k \in 1..Len(email) :
        /\ i < k
        /\ email[i] = "@"
        /\ email[k] = "."
        /\ SinEspacioNiArroba(SubSeq(email, 1, i - 1))
        /\ SinEspacioNiArroba(SubSeq(email, i + 1, k - 1))
        /\ SinEspacioNiArroba(SubSeq(email, k + 1, Len(email)))

\* validar() without the email test
validarSoloNombre(nombre, email) ==
    IF ~Truthy(nombre) \/ Len(Trim(nombre)) < 2 THEN MsgNombre ELSE ""

\* validar() testing the email before the name
validarEmailPrimero(nombre, email) ==
    IF ~Truthy(email) \/ ~esEmailValido(email) THEN MsgEmail
    ELSE IF ~Truthy(nombre) \/ Len(Trim(nombre)) < 2 THEN MsgNombre
    ELSE ""

\* validar(): the message of the Error thrown, "" when none is thrown
validar(nombre, email) ==
    IF ~Truthy(nombre) \/ Len(Trim(nombre)) < 2 THEN MsgNombre
    ELSE IF ~Truthy(email) \/ ~esEmailValido(email) THEN MsgEmail
    ELSE ""

\* a constructor that does not call validar()
ConstructorSinValidar(nombre, email, id, generado, ahora) ==
    [ error   |-> "",
      usuario |-> [ id            |-> IF id # "" THEN id ELSE generado,
                    nombre        |-> nombre,
                    email         |-> email,
                    fechaCreacion |-> ahora ] ]

\* new Usuario(nombre, email, id): generado is what generarId() would return,
\* ahora is what new Date() returns; error is the message thrown by validar()
Constructor(nombre, email, id, generado, ahora) ==
    [ error   |-> validar(nombre, email),
      usuario |-> [ id            |-> IF id # "" THEN id ELSE generado,
                    nombre        |-> nombre,
                    email         |-> email,
                    fechaCreacion |-> ahora ] ]

\* actualizarDatos assigning the fields in place, without a new Usuario
actualizarDatosSinValidar(u, nuevoNombre, nuevoEmail, ahora) ==
    [ error   |-> "",
      usuario |-> [ id            |-> u.id,
                    nombre        |-> IF Truthy(nuevoNombre) THEN nuevoNombre ELSE u.nombre,
                    email         |-> IF Truthy(nuevoEmail) THEN nuevoEmail ELSE u.email,
                    fechaCreacion |-> u.fechaCreacion ] ]

\* u.actualizarDatos(nuevoNombre, nuevoEmail)
actualizarDatos(u, nuevoNombre, nuevoEmail, ahora) ==
    Constructor(IF Truthy(nuevoNombre) THEN nuevoNombre ELSE u.nombre,
                IF Truthy(nuevoEmail) THEN nuevoEmail ELSE u.email,
                u.id, u.id, ahora)

----------------------------------------------------------------------------
(* RepositorioUsuarioEnMemoria: a Map<string, Usuario> in insertion order *)

IdsDe(us) == { us[i].id : i \in 1..Len(us) }

\* an array push in place of Map.set
guardarSiempreAgrega(us, u) == Append(us, u)

\* Map.set(usuario.id, usuario): replaces in place, or appends
guardar(us, u) ==
    IF u.id \in IdsDe(us)
    THEN [ i \in 1..Len(us) |-> IF us[i].id = u.id THEN u ELSE us[i] ]
    ELSE Append(us, u)

\* Map.get(id) || null
obtenerPorId(us, id) ==
    IF id \in IdsDe(us)
    THEN us[CHOOSE i \in 1..Len(us) : us[i].id = id]
    ELSE Null

\* the first value of the Map whose email === email, or null
obtenerPorEmail(us, email) ==
    IF \E i \in 1..Len(us) : us[i].email = email
    THEN us[CHOOSE i \in 1..Len(us) :
                /\ us[i].email = email
                /\ \A j \in 1..(i - 1) : us[j].email # email]
    ELSE Null

\* obtenerTodos leaving out the oldest record
obtenerTodosSinElPrimero(us) == IF us = <<>> THEN <<>> ELSE Tail(us)

\* Array.from(Map.values())
obtenerTodos(us) == us

\* Map.clear() in place of Map.delete(id)
eliminarTodos(us, id) == IF id \in { us[i].id : i \in 1..Len(us) } THEN <<>> ELSE us

\* Map.delete(id): the Map afterwards
RECURSIVE eliminar(_, _)
eliminar(us, id) ==
    IF us = <<>> THEN <<>>
    ELSE IF Head(us).id = id THEN eliminar(Tail(us), id)
    ELSE <<Head(us)>> \o eliminar(Tail(us), id)

\* Map.delete(id): the boolean returned
eliminado(us, id) == id \in IdsDe(us)

\* existe looking at the oldest record only
existeSoloElPrimero(us, email) == us # <<>> /\ us[1].email = email

\* existe comparing with undefined (usuario === undefined): obtenerPorEmail
\* returns a Usuario or null, never undefined
existeContraUndefined(us, email) == obtenerPorEmail(us, email).nombre = Undefined

\* existe(email)
existe(us, email) == obtenerPorEmail(us, email) # Null

----------------------------------------------------------------------------
(* UsuarioService: values shared by the use cases *)

\* a DTO stamped with the time of the mapping
mapearADtoConFechaActual(u) ==
    [ id |-> u.id, nombre |-> u.nombre, email |-> u.email,
      fechaCreacion |-> reloj ]

\* mapearADto(usuario)
mapearADto(u) ==
    [ id |-> u.id, nombre |-> u.nombre, email |-> u.email,
      fechaCreacion |-> u.fechaCreacion ]

Entrada(nivel, mensaje) == [nivel |-> nivel, mensaje |-> mensaje]

SinDatos == [op |-> "", id |-> "", nombre |-> Undefined, email |-> Undefined]

SinLocales ==
    [ usuario |-> Null, nuevo |-> Null, existe |-> FALSE, eliminado |-> FALSE,
      lista |-> <<>>, notif |-> "ninguna" ]

SinResultado ==
    [ estado |-> "pendiente", nombreError |-> "", mensaje |-> "", criterio |-> "",
      email |-> <<>>, dto |-> Null, lista |-> <<>>, valor |-> FALSE ]

\* throw new UsuarioNoEncontradoError(`ID: ${id}`)
UsuarioNoEncontradoError(id) ==
    [ SinResultado EXCEPT !.estado = "error",
                          !.nombreError = "UsuarioNoEncontradoError",
                          !.mensaje = "Usuario no encontrado: ID",
                          !.criterio = id ]

\* throw new UsuarioDuplicadoError(email)
UsuarioDuplicadoError(email) ==
    [ SinResultado EXCEPT !.estado = "error",
                          !.nombreError = "UsuarioDuplicadoError",
                          !.mensaje = "Ya existe un usuario con el email",
                          !.email = email ]

\* the Error thrown by validar(), propagated by the use case
ErrorValidacion(mensaje) ==
    [ SinResultado EXCEPT !.estado = "error", !.nombreError = "Error",
                          !.mensaje = mensaje ]

DevuelveDto(u) == [ SinResultado EXCEPT !.estado = "ok", !.dto = mapearADto(u) ]

DevuelveLista(us) ==
    [ SinResultado EXCEPT !.estado = "ok",
                          !.lista = [ i \in 1..Len(us) |-> mapearADto(us[i]) ] ]

DevuelveBool(b) == [ SinResultado EXCEPT !.estado = "ok", !.valor = b ]

\* a caller invokes a use case: the slot is free and the call budget is not spent
Inicia(p, d) ==
    /\ pc[p] = "libre"
    /\ iniciadas < MaxLlamadas
    /\ iniciadas' = iniciadas + 1
    /\ datos' = [datos EXCEPT ![p] = d]
    /\ notificadas' = [notificadas EXCEPT ![p] = 0]
    /\ resultado' = [resultado EXCEPT ![p] = SinResultado]

\* the use case ends: its promise settles with r
Termina(p, r) ==
    /\ pc' = [pc EXCEPT ![p] = "fin"]
    /\ resultado' = [resultado EXCEPT ![p] = r]

Registra(p, entradas) == log' = [log EXCEPT ![p] = log[p] \o entradas]

----------------------------------------------------------------------------
(* agregarUsuario *)

\* lines 138-141: log, then repositorio.existe(datos.email) runs and is awaited
AgregarLlamar(p, nombre, email) ==
    /\ Inicia(p, [op |-> "agregar", id |-> "", nombre |-> nombre, email |-> email])
    /\ log' = [log EXCEPT ![p] = <<Entrada("info", "Iniciando creacion de usuario")>>]
    /\ locales' = [locales EXCEPT ![p] = [SinLocales EXCEPT !.existe = existe(usuarios, email)]]
    /\ pc' = [pc EXCEPT ![p] = "a_existe"]
    /\ UNCHANGED <<usuarios, reloj>>

\* agregarUsuario checking the email again at the moment it saves
AgregarReanudarConSegundaRevision(p, generado) ==
    /\ pc[p] = "a_existe"
    /\ LET c == Constructor(datos[p].nombre, datos[p].email, "", generado, reloj) IN
       IF locales[p].existe \/ existe(usuarios, datos[p].email)
       THEN /\ Registra(p, <<Entrada("warn", "Intento de crear usuario duplicado")>>)
            /\ Termina(p, UsuarioDuplicadoError(datos[p].email))
            /\ UNCHANGED <<usuarios, locales>>
       ELSE IF c.error # ""
       THEN /\ Termina(p, ErrorValidacion(c.error))
            /\ UNCHANGED <<usuarios, locales, log>>
       ELSE /\ usuarios' = guardar(usuarios, c.usuario)
            /\ locales' = [locales EXCEPT ![p].usuario = c.usuario]
            /\ pc' = [pc EXCEPT ![p] = "a_guardado"]
            /\ UNCHANGED <<resultado, log>>
    /\ UNCHANGED <<reloj, iniciadas, datos, notificadas>>

\* agregarUsuario constructing the Usuario before it looks at the answer of existe
AgregarReanudarValidaPrimero(p, generado) ==
    /\ pc[p] = "a_existe"
    /\ LET c == Constructor(datos[p].nombre, datos[p].email, "", generado, reloj) IN
       IF c.error # ""
       THEN /\ Termina(p, ErrorValidacion(c.error))
            /\ UNCHANGED <<usuarios, locales, log>>
       ELSE IF locales[p].existe
       THEN /\ Registra(p, <<Entrada("warn", "Intento de crear usuario duplicado")>>)
            /\ Termina(p, UsuarioDuplicadoError(datos[p].email))
            /\ UNCHANGED <<usuarios, locales>>
       ELSE /\ usuarios' = guardar(usuarios, c.usuario)
            /\ locales' = [locales EXCEPT ![p].usuario = c.usuario]
            /\ pc' = [pc EXCEPT ![p] = "a_guardado"]
            /\ UNCHANGED <<resultado, log>>
    /\ UNCHANGED <<reloj, iniciadas, datos, notificadas>>

\* lines 142-151: duplicate check, construction, repositorio.guardar(usuario)
AgregarReanudar(p, generado) ==
    /\ pc[p] = "a_existe"
    /\ LET c == Constructor(datos[p].nombre, datos[p].email, "", generado, reloj) IN
       IF locales[p].existe
       THEN /\ Registra(p, <<Entrada("warn", "Intento de crear usuario duplicado")>>)
            /\ Termina(p, UsuarioDuplicadoError(datos[p].email))
            /\ UNCHANGED <<usuarios, locales>>
       ELSE IF c.error # ""
       THEN /\ Termina(p, ErrorValidacion(c.error))
            /\ UNCHANGED <<usuarios, locales, log>>
       ELSE /\ usuarios' = guardar(usuarios, c.usuario)
            /\ locales' = [locales EXCEPT ![p].usuario = c.usuario]
            /\ pc' = [pc EXCEPT ![p] = "a_guardado"]
            /\ UNCHANGED <<resultado, log>>
    /\ UNCHANGED <<reloj, iniciadas, datos, notificadas>>

\* line 155: notificaciones.enviarBienvenida(usuario) is invoked and awaited
AgregarNotificar(p) ==
    /\ pc[p] = "a_guardado"
    /\ notificadas' = [notificadas EXCEPT ![p] = notificadas[p] + 1]
    /\ locales' = [locales EXCEPT ![p].notif = "pendiente"]
    /\ pc' = [pc EXCEPT ![p] = "a_notif"]
    /\ UNCHANGED <<usuarios, reloj, iniciadas, datos, resultado, log>>

\* lines 338-345 then 161-166: the notification resolves
AgregarNotificada(p) ==
    /\ pc[p] = "a_notif"
    /\ locales' = [locales EXCEPT ![p].notif = "ok"]
    /\ Registra(p, << Entrada("info", "Email de bienvenida enviado"),
                      Entrada("info", "Usuario creado exitosamente") >>)
    /\ Termina(p, DevuelveDto(locales[p].usuario))
    /\ UNCHANGED <<usuarios, reloj, iniciadas, datos, notificadas>>

\* agregarUsuario without the try/catch around the notification
AgregarNotificacionFallaSinCatch(p) ==
    /\ pc[p] = "a_notif"
    /\ locales' = [locales EXCEPT ![p].notif = "fallo"]
    /\ Termina(p, ErrorValidacion("notificacion"))
    /\ UNCHANGED <<usuarios, reloj, iniciadas, datos, notificadas, log>>

\* agregarUsuario sending the welcome again when the notifier rejects
AgregarNotificacionFallaReintenta(p) ==
    /\ pc[p] = "a_notif"
    /\ locales' = [locales EXCEPT ![p].notif = "fallo"]
    /\ Registra(p, <<Entrada("error", "Error enviando notificacion de bienvenida")>>)
    /\ pc' = [pc EXCEPT ![p] = "a_guardado"]
    /\ UNCHANGED <<usuarios, reloj, iniciadas, datos, notificadas, resultado>>

\* lines 156-166: the notification rejects (the port may fail)
AgregarNotificacionFalla(p) ==
    /\ pc[p] = "a_notif"
    /\ locales' = [locales EXCEPT ![p].notif = "fallo"]
    /\ Registra(p, << Entrada("error", "Error enviando notificacion de bienvenida"),
                      Entrada("info", "Usuario creado exitosamente") >>)
    /\ Termina(p, DevuelveDto(locales[p].usuario))
    /\ UNCHANGED <<usuarios, reloj, iniciadas, datos, notificadas>>

----------------------------------------------------------------------------
(* obtenerUsuarios *)

\* lines 171-173
ListarLlamar(p) ==
    /\ Inicia(p, [SinDatos EXCEPT !.op = "listar"])
    /\ log' = [log EXCEPT ![p] = <<Entrada("info", "Obteniendo lista de usuarios")>>]
    /\ locales' = [locales EXCEPT ![p] = [SinLocales EXCEPT !.lista = obtenerTodos(usuarios)]]
    /\ pc' = [pc EXCEPT ![p] = "l_obtenidos"]
    /\ UNCHANGED <<usuarios, reloj>>

\* lines 175-177
ListarReanudar(p) ==
    /\ pc[p] = "l_obtenidos"
    /\ Registra(p, <<Entrada("info", "Se encontraron usuarios")>>)
    /\ Termina(p, DevuelveLista(locales[p].lista))
    /\ UNCHANGED <<usuarios, reloj, iniciadas, datos, locales, notificadas>>

----------------------------------------------------------------------------
(* obtenerUsuarioPorId *)

\* obtenerUsuarioPorId answering from the copy another call fetched earlier
ObtenerLlamarConCopia(p, id) ==
    /\ Inicia(p, [SinDatos EXCEPT !.op = "obtener", !.id = id])
    /\ log' = [log EXCEPT ![p] = <<Entrada("info", "Buscando usuario por ID")>>]
    /\ locales' = [locales EXCEPT ![p] = [SinLocales EXCEPT !.usuario =
                      IF \E q \in Procs : locales[q].usuario.id = id
                      THEN locales[CHOOSE q \in Procs : locales[q].usuario.id = id].usuario
                      ELSE obtenerPorId(usuarios, id)]]
    /\ pc' = [pc EXCEPT ![p] = "o_obtenido"]
    /\ UNCHANGED <<usuarios, reloj>>

\* lines 182-184
ObtenerLlamar(p, id) ==
    /\ Inicia(p, [SinDatos EXCEPT !.op = "obtener", !.id = id])
    /\ log' = [log EXCEPT ![p] = <<Entrada("info", "Buscando usuario por ID")>>]
    /\ locales' = [locales EXCEPT ![p] = [SinLocales EXCEPT !.usuario = obtenerPorId(usuarios, id)]]
    /\ pc' = [pc EXCEPT ![p] = "o_obtenido"]
    /\ UNCHANGED <<usuarios, reloj>>

\* obtenerUsuarioPorId without the warning of line 186
ObtenerReanudarSinAviso(p) ==
    /\ pc[p] = "o_obtenido"
    /\ IF locales[p].usuario = Null
       THEN Termina(p, UsuarioNoEncontradoError(datos[p].id))
       ELSE Termina(p, DevuelveDto(locales[p].usuario))
    /\ UNCHANGED <<usuarios, reloj, iniciadas, datos, locales, notificadas, log>>

\* lines 185-190
ObtenerReanudar(p) ==
    /\ pc[p] = "o_obtenido"
    /\ IF locales[p].usuario = Null
       THEN /\ Registra(p, <<Entrada("warn", "Usuario no encontrado por ID")>>)
            /\ Termina(p, UsuarioNoEncontradoError(datos[p].id))
       ELSE /\ Termina(p, DevuelveDto(locales[p].usuario))
            /\ UNCHANGED log
    /\ UNCHANGED <<usuarios, reloj, iniciadas, datos, locales, notificadas>>

----------------------------------------------------------------------------
(* actualizarUsuario *)

\* lines 196-198: log, then repositorio.obtenerPorId(datos.id) runs and is awaited
ActualizarLlamar(p, id, nombre, email) ==
    /\ Inicia(p, [op |-> "actualizar", id |-> id, nombre |-> nombre, email |-> email])
    /\ log' = [log EXCEPT ![p] = <<Entrada("info", "Actualizando usuario")>>]
    /\ locales' = [locales EXCEPT ![p] = [SinLocales EXCEPT !.usuario = obtenerPorId(usuarios, id)]]
    /\ pc' = [pc EXCEPT ![p] = "u_obtenido"]
    /\ UNCHANGED <<usuarios, reloj>>

\* line 204 never asking for the duplicate check
VerificaEmailNunca(d, usuarioExistente) == FALSE

\* line 204 without the comparison with the current email
VerificaEmailSinComparar(d, usuarioExistente) == Truthy(d.email)

\* line 204 comparing names instead of emails
VerificaEmailComparaNombre(d, usuarioExistente) ==
    Truthy(d.email) /\ d.email # usuarioExistente.nombre

\* line 204: the duplicate check runs iff a truthy email differs from the fetched one
VerificaEmail(d, usuarioExistente) ==
    Truthy(d.email) /\ d.email # usuarioExistente.email

\* lines 212-217: actualizarDatos, then repositorio.guardar(usuarioActualizado)
ActualizarYGuardar(p) ==
    LET c == actualizarDatos(locales[p].usuario, datos[p].nombre, datos[p].email, reloj) IN
    IF c.error # ""
    THEN /\ Termina(p, ErrorValidacion(c.error))
         /\ UNCHANGED <<usuarios, locales>>
    ELSE /\ usuarios' = guardar(usuarios, c.usuario)
         /\ locales' = [locales EXCEPT ![p].nuevo = c.usuario]
         /\ pc' = [pc EXCEPT ![p] = "u_guardado"]
         /\ UNCHANGED resultado

\* actualizarUsuario without the null test of lines 199-201
ActualizarReanudarSinRevisarNull(p) ==
    /\ pc[p] = "u_obtenido"
    /\ IF VerificaEmail(datos[p], locales[p].usuario)
       THEN /\ locales' = [locales EXCEPT ![p].existe = existe(usuarios, datos[p].email)]
            /\ pc' = [pc EXCEPT ![p] = "u_existe"]
            /\ UNCHANGED <<usuarios, resultado>>
       ELSE ActualizarYGuardar(p)
    /\ UNCHANGED <<reloj, iniciadas, datos, notificadas, log>>

\* lines 199-217, resumed with the fetched user: not found, or
\* repositorio.existe(datos.email) runs and is awaited, or the update is saved
ActualizarReanudar(p) ==
    /\ pc[p] = "u_obtenido"
    /\ IF locales[p].usuario = Null
       THEN /\ Termina(p, UsuarioNoEncontradoError(datos[p].id))
            /\ UNCHANGED <<usuarios, locales>>
       ELSE IF VerificaEmail(datos[p], locales[p].usuario)
       THEN /\ locales' = [locales EXCEPT ![p].existe = existe(usuarios, datos[p].email)]
            /\ pc' = [pc EXCEPT ![p] = "u_existe"]
            /\ UNCHANGED <<usuarios, resultado>>
       ELSE ActualizarYGuardar(p)
    /\ UNCHANGED <<reloj, iniciadas, datos, notificadas, log>>

\* lines 206-217, resumed with the result of existe
ActualizarTrasExiste(p) ==
    /\ pc[p] = "u_existe"
    /\ IF locales[p].existe
       THEN /\ Termina(p, UsuarioDuplicadoError(datos[p].email))
            /\ UNCHANGED <<usuarios, locales>>
       ELSE ActualizarYGuardar(p)
    /\ UNCHANGED <<reloj, iniciadas, datos, notificadas, log>>

\* actualizarUsuario waiting, before it notifies, until no other call is in flight
ActualizarNotificarEsperaTurno(p) ==
    /\ pc[p] = "u_guardado"
    /\ \A q \in Procs \ {p} : pc[q] = "libre"
    /\ notificadas' = [notificadas EXCEPT ![p] = notificadas[p] + 1]
    /\ locales' = [locales EXCEPT ![p].notif = "pendiente"]
    /\ pc' = [pc EXCEPT ![p] = "u_notif"]
    /\ UNCHANGED <<usuarios, reloj, iniciadas, datos, resultado, log>>

\* line 221: notificaciones.notificarActualizacion(usuarioActualizado)
ActualizarNotificar(p) ==
    /\ pc[p] = "u_guardado"
    /\ notificadas' = [notificadas EXCEPT ![p] = notificadas[p] + 1]
    /\ locales' = [locales EXCEPT ![p].notif = "pendiente"]
    /\ pc' = [pc EXCEPT ![p] = "u_notif"]
    /\ UNCHANGED <<usuarios, reloj, iniciadas, datos, resultado, log>>

\* lines 347-353 then 226-228: the notification resolves
ActualizarNotificada(p) ==
    /\ pc[p] = "u_notif"
    /\ locales' = [locales EXCEPT ![p].notif = "ok"]
    /\ Registra(p, << Entrada("info", "Notificacion de actualizacion enviada"),
                      Entrada("info", "Usuario actualizado exitosamente") >>)
    /\ Termina(p, DevuelveDto(locales[p].nuevo))
    /\ UNCHANGED <<usuarios, reloj, iniciadas, datos, notificadas>>

\* lines 222-228: the notification rejects
ActualizarNotificacionFalla(p) ==
    /\ pc[p] = "u_notif"
    /\ locales' = [locales EXCEPT ![p].notif = "fallo"]
    /\ Registra(p, << Entrada("error", "Error enviando notificacion de actualizacion"),
                      Entrada("info", "Usuario actualizado exitosamente") >>)
    /\ Termina(p, DevuelveDto(locales[p].nuevo))
    /\ UNCHANGED <<usuarios, reloj, iniciadas, datos, notificadas>>

----------------------------------------------------------------------------
(* eliminarUsuario *)

\* lines 233-235: log, then repositorio.eliminar(id) runs and is awaited
EliminarLlamar(p, id) ==
    /\ Inicia(p, [SinDatos EXCEPT !.op = "eliminar", !.id = id])
    /\ log' = [log EXCEPT ![p] = <<Entrada("info", "Eliminando usuario")>>]
    /\ locales' = [locales EXCEPT ![p] = [SinLocales EXCEPT !.eliminado = eliminado(usuarios, id)]]
    /\ usuarios' = eliminar(usuarios, id)
    /\ pc' = [pc EXCEPT ![p] = "e_eliminado"]
    /\ UNCHANGED reloj

\* eliminarUsuario returning the boolean of the repository instead of throwing
EliminarReanudarDevuelveFalse(p) ==
    /\ pc[p] = "e_eliminado"
    /\ Registra(p, <<Entrada("info", "Usuario eliminado exitosamente")>>)
    /\ Termina(p, DevuelveBool(locales[p].eliminado))
    /\ UNCHANGED <<usuarios, reloj, iniciadas, datos, locales, notificadas>>

\* lines 237-243
EliminarReanudar(p) ==
    /\ pc[p] = "e_eliminado"
    /\ IF ~locales[p].eliminado
       THEN /\ Registra(p, <<Entrada("warn", "No se pudo eliminar el usuario")>>)
            /\ Termina(p, UsuarioNoEncontradoError(datos[p].id))
       ELSE /\ Registra(p, <<Entrada("info", "Usuario eliminado exitosamente")>>)
            /\ Termina(p, DevuelveBool(TRUE))
    /\ UNCHANGED <<usuarios, reloj, iniciadas, datos, locales, notificadas>>

----------------------------------------------------------------------------
(* The callers and the clock *)

\* the caller has consumed the settled promise; the slot is free again
Retornar(p) ==
    /\ pc[p] = "fin"
    /\ pc' = [pc EXCEPT ![p] = "libre"]
    /\ datos' = [datos EXCEPT ![p] = SinDatos]
    /\ locales' = [locales EXCEPT ![p] = SinLocales]
    /\ notificadas' = [notificadas EXCEPT ![p] = 0]
    /\ resultado' = [resultado EXCEPT ![p] = SinResultado]
    /\ log' = [log EXCEPT ![p] = <<>>]
    /\ UNCHANGED <<usuarios, reloj, iniciadas>>

\* time passes between two readings of new Date()
Tic ==
    /\ reloj < MaxReloj
    /\ reloj' = reloj + 1
    /\ UNCHANGED <<usuarios, iniciadas, pc, datos, locales, notificadas, resultado, log>>

\* line 263 (an empty Map) and no call in flight
Init ==
    /\ usuarios = <<>>
    /\ reloj = 0
    /\ iniciadas = 0
    /\ pc = [p \in Procs |-> "libre"]
    /\ datos = [p \in Procs |-> SinDatos]
    /\ locales = [p \in Procs |-> SinLocales]
    /\ notificadas = [p \in Procs |-> 0]
    /\ resultado = [p \in Procs |-> SinResultado]
    /\ log = [p \in Procs |-> <<>>]

Next ==
    \/ \E p \in Procs, n \in NombresCrear, e \in EmailsCrear : AgregarLlamar(p, n, e)
    \/ \E p \in Procs, g \in Ids : AgregarReanudar(p, g)
    \/ \E p \in Procs : AgregarNotificar(p)
    \/ \E p \in Procs : AgregarNotificada(p)
    \/ \E p \in Procs : AgregarNotificacionFalla(p)
    \/ \E p \in Procs : ListarLlamar(p)
    \/ \E p \in Procs : ListarReanudar(p)
    \/ \E p \in Procs, i \in Ids : ObtenerLlamar(p, i)
    \/ \E p \in Procs : ObtenerReanudar(p)
    \/ \E p \in Procs, i \in Ids, n \in NombresActualizar, e \in EmailsActualizar :
          ActualizarLlamar(p, i, n, e)
    \/ \E p \in Procs : ActualizarReanudar(p)
    \/ \E p \in Procs : ActualizarTrasExiste(p)
    \/ \E p \in Procs : ActualizarNotificar(p)
    \/ \E p \in Procs : ActualizarNotificada(p)
    \/ \E p \in Procs : ActualizarNotificacionFalla(p)
    \/ \E p \in Procs, i \in Ids : EliminarLlamar(p, i)
    \/ \E p \in Procs : EliminarReanudar(p)
    \/ \E p \in Procs : Retornar(p)
    \/ Tic

Spec == Init /\ [][Next]_vars

\* generarId() as its comment describes it (line 20, "IDs unicos"): the id of
\* a new user is one that no stored record holds
IdUnico(p, g) ==
    \/ locales[p].existe
    \/ validar(datos[p].nombre, datos[p].email) # ""
    \/ g \notin IdsDe(usuarios)

NextIdsUnicos ==
    \/ \E p \in Procs, n \in NombresCrear, e \in EmailsCrear : AgregarLlamar(p, n, e)
    \/ \E p \in Procs, g \in Ids : IdUnico(p, g) /\ AgregarReanudar(p, g)
    \/ \E p \in Procs : AgregarNotificar(p)
    \/ \E p \in Procs : AgregarNotificada(p)
    \/ \E p \in Procs : AgregarNotificacionFalla(p)
    \/ \E p \in Procs : ListarLlamar(p)
    \/ \E p \in Procs : ListarReanudar(p)
    \/ \E p \in Procs, i \in Ids : ObtenerLlamar(p, i)
    \/ \E p \in Procs : ObtenerReanudar(p)
    \/ \E p \in Procs, i \in Ids, n \in NombresActualizar, e \in EmailsActualizar :
          ActualizarLlamar(p, i, n, e)
    \/ \E p \in Procs : ActualizarReanudar(p)
    \/ \E p \in Procs : ActualizarTrasExiste(p)
    \/ \E p \in Procs : ActualizarNotificar(p)
    \/ \E p \in Procs : ActualizarNotificada(p)
    \/ \E p \in Procs : ActualizarNotificacionFalla(p)
    \/ \E p \in Procs, i \in Ids : EliminarLlamar(p, i)
    \/ \E p \in Procs : EliminarReanudar(p)
    \/ \E p \in Procs : Retornar(p)
    \/ Tic

\* the same program when generated ids never collide with a stored one
SpecIdsUnicos == Init /\ [][NextIdsUnicos]_vars

----------------------------------------------------------------------------
(* The constructor alone: new Usuario(nombre, email) on arbitrary strings *)

\* lines 10-18: a caller constructs a Usuario from the two strings it holds;
\* the call settles with the fields of the new object, or with the Error
Construir(p, generado) ==
    /\ pc[p] = "libre"
    /\ LET c == Constructor(datos[p].nombre, datos[p].email, "", generado, reloj) IN
       /\ Termina(p, IF c.error # "" THEN ErrorValidacion(c.error)
                                     ELSE DevuelveDto(c.usuario))
       /\ locales' = [locales EXCEPT ![p].usuario =
                          IF c.error # "" THEN Null ELSE c.usuario]
    /\ UNCHANGED <<usuarios, reloj, iniciadas, datos, notificadas, log>>

InitConstructor ==
    /\ usuarios = <<>>
    /\ reloj = 0
    /\ iniciadas = 0
    /\ pc = [p \in Procs |-> "libre"]
    /\ datos \in [Procs -> { [op |-> "construir", id |-> "", nombre |-> n, email |-> e] :
                                n \in NombresConstructor, e \in EmailsConstructor }]
    /\ locales = [p \in Procs |-> SinLocales]
    /\ notificadas = [p \in Procs |-> 0]
    /\ resultado = [p \in Procs |-> SinResultado]
    /\ log = [p \in Procs |-> <<>>]

NextConstructor == \E p \in Procs, g \in Ids : Construir(p, g)

SpecConstructor == InitConstructor /\ [][NextConstructor]_vars

----------------------------------------------------------------------------
(* A caller that awaits each call before the next one, as demostrarSistema *)
(* does, and reads back the user a create returned                          *)

\* lines 403-433: obtenerUsuarioPorId(usuario1.id) on the id of the DTO that
\* the agregarUsuario just awaited by slot p returned
LeeElCreado(p, q) ==
    /\ pc[p] = "fin"
    /\ datos[p].op = "agregar"
    /\ resultado[p].estado = "ok"
    /\ ObtenerLlamar(q, resultado[p].dto.id)

\* slot 1 runs the use cases one after the other; slot 2 only reads back the
\* user of the create that slot 1 has just been answered, before slot 1
\* goes on
NextIdaYVuelta ==
    \/ \E n \in NombresCrear, e \in EmailsCrear : pc[2] = "libre" /\ AgregarLlamar(1, n, e)
    \/ \E g \in Ids : AgregarReanudar(1, g)
    \/ AgregarNotificar(1)
    \/ AgregarNotificada(1)
    \/ AgregarNotificacionFalla(1)
    \/ pc[2] = "libre" /\ ListarLlamar(1)
    \/ ListarReanudar(1)
    \/ \E i \in Ids : pc[2] = "libre" /\ ObtenerLlamar(1, i)
    \/ ObtenerReanudar(1)
    \/ \E i \in Ids, n \in NombresActualizar, e \in EmailsActualizar :
          pc[2] = "libre" /\ ActualizarLlamar(1, i, n, e)
    \/ ActualizarReanudar(1)
    \/ ActualizarTrasExiste(1)
    \/ ActualizarNotificar(1)
    \/ ActualizarNotificada(1)
    \/ ActualizarNotificacionFalla(1)
    \/ \E i \in Ids : pc[2] = "libre" /\ EliminarLlamar(1, i)
    \/ EliminarReanudar(1)
    \/ pc[2] = "libre" /\ Retornar(1)
    \/ LeeElCreado(1, 2)
    \/ ObtenerReanudar(2)
    \/ Retornar(2)
    \/ Tic

SpecIdaYVuelta == Init /\ [][NextIdaYVuelta]_vars

----------------------------------------------------------------------------
(* Scheduling: every port call resolves or rejects, and the job queue runs *)
(* the continuation of the call that awaits it                              *)

\* the continuation of call p after the await it is suspended at
Reanuda(p) ==
    \/ \E g \in Ids : AgregarReanudar(p, g)
    \/ AgregarNotificar(p)
    \/ AgregarNotificada(p)
    \/ AgregarNotificacionFalla(p)
    \/ ListarReanudar(p)
    \/ ObtenerReanudar(p)
    \/ ActualizarReanudar(p)
    \/ ActualizarTrasExiste(p)
    \/ ActualizarNotificar(p)
    \/ ActualizarNotificada(p)
    \/ ActualizarNotificacionFalla(p)
    \/ EliminarReanudar(p)

\* the steps of the program in behaviours of at most MaxLlamadasJuntas calls
NextPuertosResuelven ==
    \/ \E p \in Procs, n \in NombresCrear, e \in EmailsCrear :
          iniciadas < MaxLlamadasJuntas /\ AgregarLlamar(p, n, e)
    \/ \E p \in Procs, g \in Ids : AgregarReanudar(p, g)
    \/ \E p \in Procs : AgregarNotificar(p)
    \/ \E p \in Procs : AgregarNotificada(p)
    \/ \E p \in Procs : AgregarNotificacionFalla(p)
    \/ \E p \in Procs : iniciadas < MaxLlamadasJuntas /\ ListarLlamar(p)
    \/ \E p \in Procs : ListarReanudar(p)
    \/ \E p \in Procs, i \in Ids : iniciadas < MaxLlamadasJuntas /\ ObtenerLlamar(p, i)
    \/ \E p \in Procs : ObtenerReanudar(p)
    \/ \E p \in Procs, i \in Ids, n \in NombresActualizar, e \in EmailsActualizar :
          iniciadas < MaxLlamadasJuntas /\ ActualizarLlamar(p, i, n, e)
    \/ \E p \in Procs : ActualizarReanudar(p)
    \/ \E p \in Procs : ActualizarTrasExiste(p)
    \/ \E p \in Procs : ActualizarNotificar(p)
    \/ \E p \in Procs : ActualizarNotificada(p)
    \/ \E p \in Procs : ActualizarNotificacionFalla(p)
    \/ \E p \in Procs, i \in Ids : iniciadas < MaxLlamadasJuntas /\ EliminarLlamar(p, i)
    \/ \E p \in Procs : EliminarReanudar(p)
    \/ \E p \in Procs : Retornar(p)
    \/ Tic

\* no fairness for the callers (they need not call again) nor for the clock
SpecPuertosResuelven ==
    Init /\ [][NextPuertosResuelven]_vars /\ \A p \in Procs : WF_vars(Reanuda(p))

----------------------------------------------------------------------------
(* The repository alone: the methods of RepositorioUsuarioEnMemoria called *)
(* one after the other on the Map; slot 1 holds the last call and its answer *)

\* lines 265-267
RepoGuardar(u) ==
    /\ usuarios' = guardar(usuarios, u)
    /\ datos' = [datos EXCEPT ![1] = [SinDatos EXCEPT !.op = "guardar", !.id = u.id]]
    /\ locales' = [locales EXCEPT ![1] = [SinLocales EXCEPT !.nuevo = u]]
    /\ UNCHANGED <<reloj, iniciadas, pc, notificadas, resultado, log>>

\* lines 269-271
RepoObtenerPorId(id) ==
    /\ datos' = [datos EXCEPT ![1] = [SinDatos EXCEPT !.op = "obtenerPorId", !.id = id]]
    /\ locales' = [locales EXCEPT ![1] =
                      [SinLocales EXCEPT !.usuario = obtenerPorId(usuarios, id)]]
    /\ UNCHANGED <<usuarios, reloj, iniciadas, pc, notificadas, resultado, log>>

\* lines 296-298
RepoEliminar(id) ==
    /\ usuarios' = eliminar(usuarios, id)
    /\ datos' = [datos EXCEPT ![1] = [SinDatos EXCEPT !.op = "eliminar", !.id = id]]
    /\ locales' = [locales EXCEPT ![1] =
                      [SinLocales EXCEPT !.eliminado = eliminado(usuarios, id)]]
    /\ UNCHANGED <<reloj, iniciadas, pc, notificadas, resultado, log>>

\* lines 300-303
RepoExiste(email) ==
    /\ datos' = [datos EXCEPT ![1] = [SinDatos EXCEPT !.op = "existe", !.email = email]]
    /\ locales' = [locales EXCEPT ![1] =
                      [SinLocales EXCEPT !.existe = existe(usuarios, email)]]
    /\ UNCHANGED <<usuarios, reloj, iniciadas, pc, notificadas, resultado, log>>

NextRepositorio ==
    \/ \E u \in UsuariosRepositorio : RepoGuardar(u)
    \/ \E i \in IdsRepositorio : RepoObtenerPorId(i)
    \/ \E i \in IdsRepositorio : RepoEliminar(i)
    \/ \E e \in EmailsCrear : RepoExiste(e)

SpecRepositorio == Init /\ [][NextRepositorio]_vars

----------------------------------------------------------------------------
(* Use cases run one at a time, with generated ids that no record holds *)

\* the caller of slot p calls only when no other call is in flight
UnaALaVez(p) == \A q \in Procs \ {p} : pc[q] \in {"libre", "fin"}

NextSecuencial ==
    \/ \E p \in Procs, n \in NombresCrear, e \in EmailsCrear :
          UnaALaVez(p) /\ AgregarLlamar(p, n, e)
    \/ \E p \in Procs, g \in Ids : IdUnico(p, g) /\ AgregarReanudar(p, g)
    \/ \E p \in Procs : AgregarNotificar(p)
    \/ \E p \in Procs : AgregarNotificada(p)
    \/ \E p \in Procs : AgregarNotificacionFalla(p)
    \/ \E p \in Procs : UnaALaVez(p) /\ ListarLlamar(p)
    \/ \E p \in Procs : ListarReanudar(p)
    \/ \E p \in Procs, i \in Ids : UnaALaVez(p) /\ ObtenerLlamar(p, i)
    \/ \E p \in Procs : ObtenerReanudar(p)
    \/ \E p \in Procs, i \in Ids, n \in NombresActualizar, e \in EmailsActualizar :
          UnaALaVez(p) /\ ActualizarLlamar(p, i, n, e)
    \/ \E p \in Procs : ActualizarReanudar(p)
    \/ \E p \in Procs : ActualizarTrasExiste(p)
    \/ \E p \in Procs : ActualizarNotificar(p)
    \/ \E p \in Procs : ActualizarNotificada(p)
    \/ \E p \in Procs : ActualizarNotificacionFalla(p)
    \/ \E p \in Procs, i \in Ids : UnaALaVez(p) /\ EliminarLlamar(p, i)
    \/ \E p \in Procs : EliminarReanudar(p)
    \/ \E p \in Procs : Retornar(p)
    \/ Tic

SpecSecuencial == Init /\ [][NextSecuencial]_vars

----------------------------------------------------------------------------
(* Vocabulary of the properties *)

\* some stored record holds exactly this email
EmailGuardado(us, email) == \E i \in 1..Len(us) : us[i].email = email

\* call slot p takes a step
Avanza(p) == pc'[p] # pc[p]

HayEntrada(l, nivel) == \E i \in 1..Len(l) : l[i].nivel = nivel

----------------------------------------------------------------------------
(* C1 *)

\* C1: a create called with an email that a stored record holds finds it in
\* its existence check, and when resumed fails with UsuarioDuplicadoError for
\* that email; neither step changes the store, no Usuario is constructed and
\* the notifier is not invoked.
C1_CrearDuplicado ==
    [][ \A p \in Procs :
          /\ ( /\ pc[p] = "libre"
               /\ pc'[p] = "a_existe"
               /\ EmailGuardado(usuarios, datos'[p].email) )
             => /\ locales'[p].existe
                /\ usuarios' = usuarios
          /\ ( /\ pc[p] = "a_existe"
               /\ locales[p].existe
               /\ Avanza(p) )
             => /\ pc'[p] = "fin"
                /\ resultado'[p] = UsuarioDuplicadoError(datos[p].email)
                /\ usuarios' = usuarios
                /\ locales'[p].usuario = Null
                /\ notificadas'[p] = 0 ]_vars

\* a second create with a stored email has failed, the first record still stored
C1_Testigo ==
    \E p \in Procs :
        /\ pc[p] = "fin"
        /\ datos[p].op = "agregar"
        /\ resultado[p].nombreError = "UsuarioDuplicadoError"
        /\ EmailGuardado(usuarios, datos[p].email)
        /\ notificadas[p] = 0

----------------------------------------------------------------------------
(* C2 *)

\* C2: a create whose existence check answered false saves its user when it
\* is resumed, whatever the store holds by then (there is no second check);
\* so two creates in flight together both save the same email.
C2_CrearNoRevisaAlGuardar ==
    [][ \A p \in Procs :
          ( /\ pc[p] = "a_existe"
            /\ ~locales[p].existe
            /\ validar(datos[p].nombre, datos[p].email) = ""
            /\ Avanza(p) )
          => /\ pc'[p] = "a_guardado"
             /\ locales'[p].usuario.email = datos[p].email
             /\ obtenerPorId(usuarios', locales'[p].usuario.id) = locales'[p].usuario ]_vars

\* two stored records hold the same email
C2_Testigo ==
    \E i \in 1..Len(usuarios) : \E j \in 1..Len(usuarios) :
        /\ i # j
        /\ usuarios[i].id # usuarios[j].id
        /\ usuarios[i].email = usuarios[j].email

----------------------------------------------------------------------------
(* C3 *)

\* C3: when the notifier rejects, create and update still settle with the DTO
\* of the user they saved, the failure is logged at error severity, and no
\* step of the call after its save touches the store (the save is not undone).
C3_NotificacionFallida ==
    [][ \A p \in Procs :
          /\ ( /\ pc[p] \in {"a_guardado", "a_notif", "u_guardado", "u_notif"}
               /\ Avanza(p) )
             => usuarios' = usuarios
          /\ ( /\ pc[p] \in {"a_notif", "u_notif"}
               /\ locales'[p].notif = "fallo" )
             => /\ pc'[p] = "fin"
                /\ resultado'[p].estado = "ok"
                /\ resultado'[p].nombreError = ""
                /\ resultado'[p].dto =
                       mapearADto(IF pc[p] = "a_notif" THEN locales[p].usuario
                                                       ELSE locales[p].nuevo)
                /\ resultado'[p].dto # Null
                /\ HayEntrada(log'[p], "error") ]_vars

\* a create and an update have both returned after their notification failed,
\* and the records they saved are stored
C3_Testigo ==
    \E p \in Procs : \E q \in Procs :
        /\ pc[p] = "fin" /\ datos[p].op = "agregar"
        /\ pc[q] = "fin" /\ datos[q].op = "actualizar"
        /\ locales[p].notif = "fallo" /\ locales[q].notif = "fallo"
        /\ resultado[p].estado = "ok" /\ resultado[q].estado = "ok"
        /\ resultado[p].dto.id \in IdsDe(usuarios)
        /\ resultado[q].dto.id \in IdsDe(usuarios)

----------------------------------------------------------------------------
(* C4 *)

\* an update slot that has fetched its user and is about to run lines 204-209
Decide(p) == pc[p] = "u_obtenido" /\ locales[p].usuario # Null /\ Avanza(p)

\* the duplicate check of the update is running and will answer true
FallaraPorDuplicado(p) == pc'[p] = "u_existe" /\ locales'[p].existe

\* C4 as stated: an update fails with UsuarioDuplicadoError exactly when the
\* request supplies an email that differs from the fetched user's email and a
\* stored record with another id holds that email; the store is then
\* unchanged and the notifier is not invoked.
C4_Original ==
    [][ \A p \in Procs :
          /\ Decide(p)
             => ( FallaraPorDuplicado(p)
                  <=> /\ datos[p].email # Undefined
                      /\ datos[p].email # locales[p].usuario.email
                      /\ \E i \in 1..Len(usuarios) :
                            /\ usuarios[i].email = datos[p].email
                            /\ usuarios[i].id # datos[p].id )
          /\ ( datos[p].op = "actualizar" /\ Avanza(p) )
             => ( resultado'[p].nombreError = "UsuarioDuplicadoError"
                  <=> pc[p] = "u_existe" /\ locales[p].existe )
          /\ ( pc[p] = "u_existe" /\ locales[p].existe /\ Avanza(p) )
             => /\ resultado'[p] = UsuarioDuplicadoError(datos[p].email)
                /\ usuarios' = usuarios
                /\ notificadas'[p] = 0 ]_vars

\* C4 (amended): an update fails with UsuarioDuplicadoError exactly when the
\* request supplies a non-empty email that differs from the fetched user's
\* email and, when the check runs, some stored record holds that email (the
\* target's own record included); the store is then unchanged and the
\* notifier is not invoked.
C4_ActualizarDuplicado ==
    [][ \A p \in Procs :
          /\ Decide(p)
             => ( FallaraPorDuplicado(p)
                  <=> /\ Truthy(datos[p].email)
                      /\ datos[p].email # locales[p].usuario.email
                      /\ EmailGuardado(usuarios, datos[p].email) )
          /\ ( datos[p].op = "actualizar" /\ Avanza(p) )
             => ( resultado'[p].nombreError = "UsuarioDuplicadoError"
                  <=> pc[p] = "u_existe" /\ locales[p].existe )
          /\ ( pc[p] = "u_existe" /\ locales[p].existe /\ Avanza(p) )
             => /\ resultado'[p] = UsuarioDuplicadoError(datos[p].email)
                /\ usuarios' = usuarios
                /\ notificadas'[p] = 0 ]_vars

\* an update has failed with UsuarioDuplicadoError
C4_Testigo ==
    \E p \in Procs :
        /\ pc[p] = "fin"
        /\ datos[p].op = "actualizar"
        /\ resultado[p].nombreError = "UsuarioDuplicadoError"
        /\ resultado[p].email = datos[p].email
        /\ notificadas[p] = 0

----------------------------------------------------------------------------
(* C5 *)

\* C5: an update that has fetched its user and whose request omits the email
\* or carries the fetched user's own email never runs the existence check
\* and never fails with UsuarioDuplicadoError.
C5_SinCambioDeEmail ==
    \A p \in Procs :
        ( /\ datos[p].op = "actualizar"
          /\ locales[p].usuario # Null
          /\ ( datos[p].email = Undefined \/ datos[p].email = locales[p].usuario.email ) )
        => /\ pc[p] # "u_existe"
           /\ ~locales[p].existe
           /\ resultado[p].nombreError # "UsuarioDuplicadoError"

\* an update to the user's own email has succeeded while another record is stored
C5_Testigo ==
    \E p \in Procs :
        /\ pc[p] = "fin"
        /\ datos[p].op = "actualizar"
        /\ datos[p].email = locales[p].usuario.email
        /\ resultado[p].estado = "ok"
        /\ \E i \in 1..Len(usuarios) : usuarios[i].id # datos[p].id

----------------------------------------------------------------------------
(* C6 *)

\* an update slot runs actualizarDatos (lines 212-215): it has fetched its
\* user and passed the duplicate check, and now saves or throws
Construye(p) ==
    /\ datos[p].op = "actualizar"
    /\ pc[p] \in {"u_obtenido", "u_existe"}
    /\ locales[p].usuario # Null
    /\ \/ pc'[p] = "u_guardado"
       \/ pc'[p] = "fin" /\ resultado'[p].nombreError # "UsuarioDuplicadoError"

\* the value a field of the replacement takes when every supplied value,
\* the empty string included, replaces the current one
SiSuministrado(valor, actual) == IF valor # Undefined THEN valor ELSE actual

\* the value a field of the replacement takes when only a non-empty supplied
\* value replaces the current one
SiNoVacio(valor, actual) == IF Truthy(valor) THEN valor ELSE actual

\* C6 as stated: an update that supplies a name of trimmed length < 2 (the
\* empty string included) or an email that does not match the pattern fails
\* with the error validar gives for the resulting values and leaves the store
\* unchanged; a replacement that is saved takes every supplied field from the
\* request and the others from the fetched user.
C6_Original ==
    [][ \A p \in Procs :
          Construye(p)
          => LET n == SiSuministrado(datos[p].nombre, locales[p].usuario.nombre)
                 e == SiSuministrado(datos[p].email, locales[p].usuario.email)
             IN  IF validar(n, e) # ""
                 THEN /\ pc'[p] = "fin"
                      /\ resultado'[p] = ErrorValidacion(validar(n, e))
                      /\ usuarios' = usuarios
                 ELSE /\ pc'[p] = "u_guardado"
                      /\ locales'[p].nuevo.nombre = n
                      /\ locales'[p].nuevo.email = e ]_vars

\* C6 (amended): an update that supplies a non-empty name of trimmed length
\* < 2 or a non-empty email that does not match the pattern fails with the
\* error validar gives for the resulting values and leaves the store
\* unchanged; a field that is absent or the empty string is taken from the
\* fetched user, every other field from the request.
C6_ActualizarRevalida ==
    [][ \A p \in Procs :
          Construye(p)
          => LET n == SiNoVacio(datos[p].nombre, locales[p].usuario.nombre)
                 e == SiNoVacio(datos[p].email, locales[p].usuario.email)
             IN  IF validar(n, e) # ""
                 THEN /\ pc'[p] = "fin"
                      /\ resultado'[p] = ErrorValidacion(validar(n, e))
                      /\ usuarios' = usuarios
                 ELSE /\ pc'[p] = "u_guardado"
                      /\ locales'[p].nuevo.nombre = n
                      /\ locales'[p].nuevo.email = e ]_vars

\* an update supplying a name too short has failed with the name error and
\* the stored record is the one it fetched
C6_Testigo ==
    \E p \in Procs :
        /\ pc[p] = "fin"
        /\ datos[p].op = "actualizar"
        /\ Truthy(datos[p].nombre)
        /\ Len(Trim(datos[p].nombre)) < 2
        /\ resultado[p] = ErrorValidacion(MsgNombre)
        /\ locales[p].usuario # Null
        /\ obtenerPorId(usuarios, datos[p].id) = locales[p].usuario

----------------------------------------------------------------------------
(* C7 *)

\* an update slot saves its replacement (line 217)
Guarda(p) ==
    /\ datos[p].op = "actualizar"
    /\ pc[p] # "u_guardado"
    /\ pc'[p] = "u_guardado"

\* C7 as stated: the save of an update leaves the fechaCreacion of the record
\* stored under its id as it was.
C7_Original ==
    [][ \A p \in Procs :
          ( Guarda(p) /\ datos[p].id \in IdsDe(usuarios) )
          => obtenerPorId(usuarios', datos[p].id).fechaCreacion
                 = obtenerPorId(usuarios, datos[p].id).fechaCreacion ]_vars

----------------------------------------------------------------------------
(* C8 *)

\* C8 as stated: the save of an update keeps the record count and every
\* other record, the record then stored under the request's id (what a
\* following obtenerUsuarioPorId returns) carries each supplied field and the
\* fetched value of the others, and the DTO returned carries the request's id.
C8_Original ==
    [][ \A p \in Procs :
          /\ Guarda(p)
             => LET r == DevuelveDto(obtenerPorId(usuarios', datos[p].id)).dto IN
                /\ Len(usuarios') = Len(usuarios)
                /\ \A i \in Ids \ {datos[p].id} :
                       obtenerPorId(usuarios', i) = obtenerPorId(usuarios, i)
                /\ r.id = datos[p].id
                /\ r.nombre = SiSuministrado(datos[p].nombre, locales[p].usuario.nombre)
                /\ r.email = SiSuministrado(datos[p].email, locales[p].usuario.email)
          /\ ( pc[p] = "u_notif" /\ Avanza(p) )
             => /\ resultado'[p].estado = "ok"
                /\ resultado'[p].dto = mapearADto(locales[p].nuevo)
                /\ resultado'[p].dto.id = datos[p].id ]_vars

\* C8 (amended): the save of an update keeps every other record, and keeps
\* the record count when the request's id is still stored (a concurrent
\* delete makes it grow by one); the record then stored under the request's
\* id carries each supplied non-empty field and the fetched value of the
\* others, and the DTO returned carries the request's id.
C8_ActualizarReemplaza ==
    [][ \A p \in Procs :
          /\ Guarda(p)
             => LET r == DevuelveDto(obtenerPorId(usuarios', datos[p].id)).dto IN
                /\ Len(usuarios') =
                       IF datos[p].id \in IdsDe(usuarios) THEN Len(usuarios)
                                                         ELSE Len(usuarios) + 1
                /\ \A i \in Ids \ {datos[p].id} :
                       obtenerPorId(usuarios', i) = obtenerPorId(usuarios, i)
                /\ r.id = datos[p].id
                /\ r.nombre = SiNoVacio(datos[p].nombre, locales[p].usuario.nombre)
                /\ r.email = SiNoVacio(datos[p].email, locales[p].usuario.email)
          /\ ( pc[p] = "u_notif" /\ Avanza(p) )
             => /\ resultado'[p].estado = "ok"
                /\ resultado'[p].dto = mapearADto(locales[p].nuevo)
                /\ resultado'[p].dto.id = datos[p].id ]_vars

\* an update of name and email has returned, its replacement is stored under
\* the same id beside another record
C8_Testigo ==
    \E p \in Procs :
        /\ pc[p] = "fin"
        /\ datos[p].op = "actualizar"
        /\ resultado[p].estado = "ok"
        /\ Truthy(datos[p].nombre)
        /\ Truthy(datos[p].email)
        /\ datos[p].nombre # locales[p].usuario.nombre
        /\ datos[p].email # locales[p].usuario.email
        /\ obtenerPorId(usuarios, datos[p].id).nombre = datos[p].nombre
        /\ obtenerPorId(usuarios, datos[p].id).email = datos[p].email
        /\ Len(usuarios) = 2

----------------------------------------------------------------------------
(* C9 *)

\* C9: a delete called with a stored id removes that record and no other and
\* settles with true; the store it leaves answers null to obtenerPorId and
\* lists no such id, and obtenerUsuarioPorId fails with
\* UsuarioNoEncontradoError whenever its fetch answered null.
C9_EliminarExistente ==
    [][ \A p \in Procs :
          /\ ( /\ pc[p] = "libre"
               /\ pc'[p] = "e_eliminado"
               /\ datos'[p].id \in IdsDe(usuarios) )
             => LET id == datos'[p].id IN
                /\ locales'[p].eliminado
                /\ Len(usuarios') = Len(usuarios) - 1
                /\ \A i \in Ids \ {id} :
                       obtenerPorId(usuarios', i) = obtenerPorId(usuarios, i)
                /\ obtenerPorId(usuarios', id) = Null
                /\ \A k \in 1..Len(obtenerTodos(usuarios')) :
                       obtenerTodos(usuarios')[k].id # id
          /\ ( pc[p] = "e_eliminado" /\ locales[p].eliminado /\ Avanza(p) )
             => /\ pc'[p] = "fin"
                /\ resultado'[p] = DevuelveBool(TRUE)
                /\ usuarios' = usuarios
          /\ ( pc[p] = "libre" /\ pc'[p] = "o_obtenido" )
             => locales'[p].usuario = obtenerPorId(usuarios, datos'[p].id)
          /\ ( pc[p] = "o_obtenido" /\ locales[p].usuario = Null /\ Avanza(p) )
             => resultado'[p] = UsuarioNoEncontradoError(datos[p].id) ]_vars

\* a delete has returned true, the id is gone and another record is still stored
C9_Testigo ==
    \E p \in Procs :
        /\ pc[p] = "fin"
        /\ datos[p].op = "eliminar"
        /\ resultado[p].estado = "ok"
        /\ resultado[p].valor
        /\ datos[p].id \notin IdsDe(usuarios)
        /\ Len(usuarios) >= 1

----------------------------------------------------------------------------
(* C10 *)

\* C10: a delete called with an id that is not stored leaves the store as it
\* was and fails with UsuarioNoEncontradoError carrying that id; a delete
\* that settles without an error settles with true.
C10_EliminarAusente ==
    [][ \A p \in Procs :
          /\ ( /\ pc[p] = "libre"
               /\ pc'[p] = "e_eliminado"
               /\ datos'[p].id \notin IdsDe(usuarios) )
             => /\ ~locales'[p].eliminado
                /\ usuarios' = usuarios
          /\ ( pc[p] = "e_eliminado" /\ ~locales[p].eliminado /\ Avanza(p) )
             => /\ pc'[p] = "fin"
                /\ resultado'[p] = UsuarioNoEncontradoError(datos[p].id)
                /\ usuarios' = usuarios
          /\ ( datos[p].op = "eliminar" /\ Avanza(p) /\ resultado'[p].estado = "ok" )
             => resultado'[p].valor ]_vars

\* a delete of an absent id has failed while another record is stored
C10_Testigo ==
    \E p \in Procs :
        /\ pc[p] = "fin"
        /\ datos[p].op = "eliminar"
        /\ resultado[p] = UsuarioNoEncontradoError(datos[p].id)
        /\ Len(usuarios) >= 1

----------------------------------------------------------------------------
(* C11 *)

\* C11: obtenerUsuarioPorId and actualizarUsuario called with an id that is
\* not stored fetch null and, when resumed, fail with
\* UsuarioNoEncontradoError carrying that id; the update then runs no
\* existence check, builds and saves nothing and does not invoke the
\* notifier, and the store is unchanged by both steps.
C11_IdAusente ==
    [][ \A p \in Procs :
          /\ ( /\ pc[p] = "libre"
               /\ pc'[p] \in {"o_obtenido", "u_obtenido"}
               /\ datos'[p].id \notin IdsDe(usuarios) )
             => /\ locales'[p].usuario = Null
                /\ usuarios' = usuarios
          /\ ( /\ pc[p] \in {"o_obtenido", "u_obtenido"}
               /\ locales[p].usuario = Null
               /\ Avanza(p) )
             => /\ pc'[p] = "fin"
                /\ resultado'[p] = UsuarioNoEncontradoError(datos[p].id)
                /\ usuarios' = usuarios
                /\ ~locales'[p].existe
                /\ locales'[p].nuevo = Null
                /\ notificadas'[p] = 0 ]_vars

\* an update and a getById of an id that is not stored have both failed with
\* UsuarioNoEncontradoError while another record is stored
C11_Testigo ==
    \E p \in Procs : \E q \in Procs :
        /\ pc[p] = "fin" /\ datos[p].op = "actualizar"
        /\ pc[q] = "fin" /\ datos[q].op = "obtener"
        /\ resultado[p] = UsuarioNoEncontradoError(datos[p].id)
        /\ resultado[q] = UsuarioNoEncontradoError(datos[q].id)
        /\ datos[p].id \notin IdsDe(usuarios)
        /\ datos[q].id \notin IdsDe(usuarios)
        /\ notificadas[p] = 0
        /\ Len(usuarios) >= 1

----------------------------------------------------------------------------
(* C12 *)

\* C12: a create whose existence check answered false and whose name or
\* email fails validar, when resumed, fails with exactly the Error validar
\* throws for those values; nothing is saved (the store is unchanged, the
\* call holds no user) and the notifier is not invoked.
C12_CrearInvalido ==
    [][ \A p \in Procs :
          ( /\ pc[p] = "a_existe"
            /\ ~locales[p].existe
            /\ validar(datos[p].nombre, datos[p].email) # ""
            /\ Avanza(p) )
          => /\ pc'[p] = "fin"
             /\ resultado'[p] =
                    ErrorValidacion(validar(datos[p].nombre, datos[p].email))
             /\ usuarios' = usuarios
             /\ locales'[p].usuario = Null
             /\ notificadas'[p] = 0 ]_vars

\* two creates with emails no record holds have failed, one with the name
\* error and one with the email error
C12_Testigo ==
    \E p \in Procs : \E q \in Procs :
        /\ pc[p] = "fin" /\ datos[p].op = "agregar"
        /\ pc[q] = "fin" /\ datos[q].op = "agregar"
        /\ resultado[p] = ErrorValidacion(MsgNombre)
        /\ resultado[q] = ErrorValidacion(MsgEmail)
        /\ ~EmailGuardado(usuarios, datos[p].email)
        /\ ~EmailGuardado(usuarios, datos[q].email)
        /\ notificadas[p] = 0 /\ notificadas[q] = 0

----------------------------------------------------------------------------
(* C13 *)

\* the email is a non-empty local part, "@", a non-empty domain part, ".",
\* and a non-empty rest, none of them holding white space or "@": exactly
\* one "@", no white space, and a "." at least two places after the "@"
\* that is not the last character
CoincideConPatron(email) ==
    /\ Cardinality({ i \in 1..Len(email) : email[i] = "@" }) = 1
    /\ \A i \in 1..Len(email) : email[i] # " "
    /\ LET arroba == CHOOSE i \in 1..Len(email) : email[i] = "@" IN
       /\ arroba > 1
       /\ \E k \in (arroba + 2)..(Len(email) - 1) : email[k] = "."

\* the name without its leading and trailing spaces has at least 2 characters
NombreValido(nombre) ==
    \E i \in 1..Len(nombre) : \E j \in 1..Len(nombre) :
        i < j /\ nombre[i] # " " /\ nombre[j] # " "

\* C13: for every (name, email), construction succeeds, with fields equal to
\* the inputs, iff the trimmed name has length >= 2 and the email matches
\* the pattern; otherwise it fails, with the name error whenever the name is
\* invalid and with the email error only when the name is valid and the
\* email is not.
C13_Construccion ==
    \A p \in Procs :
        pc[p] = "fin"
        => LET n == datos[p].nombre
               e == datos[p].email
           IN  /\ resultado[p].estado = "ok"
                   <=> NombreValido(n) /\ CoincideConPatron(e)
               /\ resultado[p].estado = "ok"
                   => /\ resultado[p].dto.nombre = n
                      /\ resultado[p].dto.email = e
                      /\ locales[p].usuario.nombre = n
                      /\ locales[p].usuario.email = e
               /\ ~NombreValido(n) => resultado[p] = ErrorValidacion(MsgNombre)
               /\ resultado[p] = ErrorValidacion(MsgEmail)
                   <=> NombreValido(n) /\ ~CoincideConPatron(e)

\* one construction has succeeded keeping the spaces of its name, another
\* has failed with the name error although its email is invalid too, a
\* third kind has failed with the email error
C13_Testigo ==
    \E p \in Procs : \E q \in Procs :
        /\ pc[p] = "fin" /\ pc[q] = "fin"
        /\ datos[p].op = "construir" /\ datos[q].op = "construir"
        /\ resultado[p].estado = "ok"
        /\ Len(Trim(datos[p].nombre)) < Len(datos[p].nombre)
        /\ resultado[p].dto.nombre = datos[p].nombre
        /\ resultado[q] = ErrorValidacion(MsgNombre)
        /\ ~esEmailValido(datos[q].email)

----------------------------------------------------------------------------
(* C14 *)

\* C14: when a create has returned a DTO and obtenerUsuarioPorId is called
\* on the returned id with no other use case in between, it returns a DTO
\* with the same id, nombre, email and fechaCreacion as the one the create
\* returned, and nombre and email are those of the create request.
C14_IdaYVuelta ==
    pc[2] = "fin"
    => /\ pc[1] = "fin"
       /\ datos[1].op = "agregar"
       /\ datos[2].id = resultado[1].dto.id
       /\ resultado[2].estado = "ok"
       /\ resultado[2].dto.id = resultado[1].dto.id
       /\ resultado[2].dto.nombre = resultado[1].dto.nombre
       /\ resultado[2].dto.email = resultado[1].dto.email
       /\ resultado[2].dto.fechaCreacion = resultado[1].dto.fechaCreacion
       /\ resultado[2].dto.nombre = datos[1].nombre
       /\ resultado[2].dto.email = datos[1].email

\* the read-back has returned, later than the creation, with a second record
\* in the store
C14_Testigo ==
    /\ pc[2] = "fin"
    /\ resultado[2].estado = "ok"
    /\ resultado[2].dto.id = resultado[1].dto.id
    /\ reloj > resultado[2].dto.fechaCreacion
    /\ Len(usuarios) = 2

----------------------------------------------------------------------------
(* C15 *)

\* C15: obtenerUsuarios fetches every record the store holds when it is
\* called, and returns exactly one DTO for each of them, in the same order,
\* carrying that record's id, nombre, email and fechaCreacion: nothing is
\* filtered, so the list has as many entries as the store had records, each
\* with a different id.
C15_ListarTodos ==
    [][ \A p \in Procs :
          /\ ( pc[p] = "libre" /\ pc'[p] = "l_obtenidos" )
             => /\ Len(locales'[p].lista) = Len(usuarios)
                /\ \A i \in 1..Len(usuarios) : locales'[p].lista[i] = usuarios[i]
                /\ usuarios' = usuarios
          /\ ( pc[p] = "l_obtenidos" /\ Avanza(p) )
             => /\ pc'[p] = "fin"
                /\ resultado'[p].estado = "ok"
                /\ Len(resultado'[p].lista) = Len(locales[p].lista)
                /\ \A i \in 1..Len(locales[p].lista) :
                       /\ resultado'[p].lista[i].id = locales[p].lista[i].id
                       /\ resultado'[p].lista[i].nombre = locales[p].lista[i].nombre
                       /\ resultado'[p].lista[i].email = locales[p].lista[i].email
                       /\ resultado'[p].lista[i].fechaCreacion
                              = locales[p].lista[i].fechaCreacion
                /\ \A i \in 1..Len(resultado'[p].lista) :
                       \A j \in 1..Len(resultado'[p].lista) :
                          i # j => resultado'[p].lista[i].id # resultado'[p].lista[j].id
                /\ usuarios' = usuarios ]_vars

\* a list has returned the two records the store holds
C15_Testigo ==
    \E p \in Procs :
        /\ pc[p] = "fin"
        /\ datos[p].op = "listar"
        /\ Len(resultado[p].lista) = 2
        /\ Len(usuarios) = 2
        /\ \A i \in 1..2 : resultado[p].lista[i].id = usuarios[i].id

----------------------------------------------------------------------------
(* C16 *)

\* the first entry of a call's log is the info entry written on entry
RegistraIntencion(p) ==
    /\ Len(log[p]) >= 1
    /\ log[p][1].nivel = "info"
    /\ log[p][1].mensaje \in
          { "Iniciando creacion de usuario", "Obteniendo lista de usuarios",
            "Buscando usuario por ID", "Actualizando usuario", "Eliminando usuario" }

\* the call wrote an entry after the one for its intent, and the last one
\* tells the outcome: info for a result, warn for a failure
RegistraResultado(p) ==
    /\ Len(log[p]) >= 2
    /\ log[p][Len(log[p])].nivel =
           IF resultado[p].estado = "ok" THEN "info" ELSE "warn"

\* the paths that end without an entry for the outcome: a create that fails
\* validation, an obtenerUsuarioPorId that succeeds, an update that fails
SinRegistroDeResultado(p) ==
    \/ datos[p].op = "agregar" /\ resultado[p].nombreError = "Error"
    \/ datos[p].op = "obtener" /\ resultado[p].estado = "ok"
    \/ datos[p].op = "actualizar" /\ resultado[p].estado = "error"

\* C16 as stated: every use case has logged its intent once it is entered
\* and has logged its outcome when it ends, on every path.
C16_Original ==
    \A p \in Procs :
        /\ pc[p] # "libre" => RegistraIntencion(p)
        /\ pc[p] = "fin" => RegistraResultado(p)

\* C16 (amended): every use case has logged its intent once it is entered;
\* when it ends it has logged its outcome (info for a result, warn for a
\* failure) except on these paths, where only the intent is logged: a
\* create that fails validation, an obtenerUsuarioPorId that succeeds, and
\* an update that fails (not found, duplicate email or validation).
C16_RegistroPorCamino ==
    \A p \in Procs :
        /\ pc[p] # "libre" => RegistraIntencion(p)
        /\ pc[p] = "fin"
           => IF SinRegistroDeResultado(p) THEN Len(log[p]) = 1
                                           ELSE RegistraResultado(p)

\* an update has failed with only its intent logged, and a delete has failed
\* with a warning logged
C16_Testigo ==
    \E p \in Procs : \E q \in Procs :
        /\ pc[p] = "fin" /\ datos[p].op = "actualizar"
        /\ resultado[p].nombreError = "UsuarioNoEncontradoError"
        /\ Len(log[p]) = 1
        /\ pc[q] = "fin" /\ datos[q].op = "eliminar"
        /\ resultado[q].estado = "error"
        /\ HayEntrada(log[q], "warn")

----------------------------------------------------------------------------
(* C17 *)

\* C17: provided every port call it awaits resolves or rejects, a use case
\* that has started eventually ends, with a result or with a failure.
C17_Termina ==
    \A p \in Procs :
        (pc[p] \notin {"libre", "fin"})
            ~> (pc[p] = "fin" /\ resultado[p].estado \in {"ok", "error"})

\* two calls that were in flight together have both ended, one with a result
\* and one with a failure
C17_Testigo ==
    /\ pc[1] = "fin" /\ pc[2] = "fin"
    /\ iniciadas = 2
    /\ resultado[1].estado = "ok"
    /\ resultado[2].estado = "error"
    /\ notificadas[1] = 1

----------------------------------------------------------------------------
(* C18 *)

\* how far a create or an update has got: before its save, saved, notifying, ended
Etapa(punto) ==
    CASE punto \in {"a_existe", "u_obtenido"} -> 1
      [] punto = "u_existe" -> 2
      [] punto \in {"a_guardado", "u_guardado"} -> 3
      [] punto \in {"a_notif", "u_notif"} -> 4
      [] OTHER -> 5

\* the create or update in slot p has saved its user
HaGuardado(p) ==
    IF datos[p].op = "agregar" THEN locales[p].usuario # Null
                               ELSE locales[p].nuevo # Null

\* the notifier has been invoked exactly when the call is past its save, and
\* then once; a call that ended with a failure saved nothing
UnaNotificacionTrasGuardar(p) ==
    datos[p].op \in {"agregar", "actualizar"}
    => /\ notificadas[p] = IF Etapa(pc[p]) = 4 \/ (pc[p] = "fin" /\ HaGuardado(p))
                           THEN 1 ELSE 0
       /\ notificadas[p] = 1 => HaGuardado(p)
       /\ Etapa(pc[p]) < 3 => ~HaGuardado(p)
       /\ pc[p] = "fin" => (resultado[p].estado = "ok" <=> HaGuardado(p))

\* C18: a create or update invokes the notifier at most once, exactly once
\* when it has saved and never before that save, and not at all on a path
\* that fails before the save; it never goes back to an earlier point (no
\* retry), and it writes the store in one step only, the one of its save.
C18_SinReintento ==
    [][ \A p \in Procs :
          /\ UnaNotificacionTrasGuardar(p)
          /\ UnaNotificacionTrasGuardar(p)'
          /\ ( datos[p].op \in {"agregar", "actualizar"} /\ Avanza(p) /\ pc'[p] # "libre" )
             => /\ Etapa(pc'[p]) > Etapa(pc[p])
                /\ usuarios' # usuarios => Etapa(pc[p]) < 3 /\ Etapa(pc'[p]) = 3
                /\ Etapa(pc'[p]) = 3
                    => usuarios' = guardar(usuarios, IF datos[p].op = "agregar"
                                                     THEN locales'[p].usuario
                                                     ELSE locales'[p].nuevo)
                /\ notificadas'[p] # notificadas[p]
                    => Etapa(pc[p]) = 3 /\ Etapa(pc'[p]) = 4 ]_vars

\* a create has returned after one notification, and an update has failed
\* before its save without any
C18_Testigo ==
    \E p \in Procs : \E q \in Procs :
        /\ pc[p] = "fin" /\ datos[p].op = "agregar"
        /\ resultado[p].estado = "ok" /\ notificadas[p] = 1
        /\ pc[q] = "fin" /\ datos[q].op = "actualizar"
        /\ resultado[q].estado = "error" /\ notificadas[q] = 0
        /\ locales[q].nuevo = Null

----------------------------------------------------------------------------
(* C19 *)

\* C19 as stated: the save of a create stores its user under an id that no
\* record held, so the store gains exactly one record and every record it
\* held is still there, unchanged.
C19_Original ==
    [][ \A p \in Procs :
          ( pc[p] = "a_existe" /\ pc'[p] = "a_guardado" )
          => /\ locales'[p].usuario.id \notin IdsDe(usuarios)
             /\ Len(usuarios') = Len(usuarios) + 1
             /\ \A i \in 1..Len(usuarios) : usuarios'[i] = usuarios[i] ]_vars

----------------------------------------------------------------------------
(* C20 *)

\* the user satisfies the invariants of the entity
UsuarioValido(u) == NombreValido(u.nombre) /\ CoincideConPatron(u.email)

\* C20: in every reachable state every stored record has a name of trimmed
\* length >= 2 and an email that matches the pattern, and so has every user
\* a use case holds, has fetched for a list, or has mapped to a returned DTO.
C20_SoloUsuariosValidos ==
    /\ \A i \in 1..Len(usuarios) : UsuarioValido(usuarios[i])
    /\ \A p \in Procs :
          /\ locales[p].usuario # Null => UsuarioValido(locales[p].usuario)
          /\ locales[p].nuevo # Null => UsuarioValido(locales[p].nuevo)
          /\ \A i \in 1..Len(locales[p].lista) : UsuarioValido(locales[p].lista[i])
          /\ resultado[p].dto # Null => UsuarioValido(resultado[p].dto)
          /\ \A i \in 1..Len(resultado[p].lista) : UsuarioValido(resultado[p].lista[i])

\* the store holds two records, one of them renamed by an update that has
\* returned
C20_Testigo ==
    /\ Len(usuarios) = 2
    /\ \E p \in Procs :
          /\ pc[p] = "fin" /\ datos[p].op = "actualizar"
          /\ resultado[p].estado = "ok"
          /\ Truthy(datos[p].nombre)
          /\ obtenerPorId(usuarios, datos[p].id).nombre = datos[p].nombre

----------------------------------------------------------------------------
(* C21 *)

\* C21: no step of obtenerUsuarios or obtenerUsuarioPorId changes the store,
\* and each call fetches from the store as it is when the call is made
\* (there is no cache): what it returns is the mapping of what it fetched.
C21_LecturasSinCache ==
    [][ \A p \in Procs :
          /\ ( datos'[p].op \in {"listar", "obtener"} /\ Avanza(p) )
             => usuarios' = usuarios
          /\ ( pc[p] = "libre" /\ datos'[p].op = "listar" )
             => locales'[p].lista = usuarios'
          /\ ( pc[p] = "libre" /\ datos'[p].op = "obtener" )
             => locales'[p].usuario =
                    IF \E i \in 1..Len(usuarios') : usuarios'[i].id = datos'[p].id
                    THEN usuarios'[CHOOSE i \in 1..Len(usuarios') :
                                      usuarios'[i].id = datos'[p].id]
                    ELSE Null
          /\ ( pc[p] = "o_obtenido" /\ locales[p].usuario # Null /\ Avanza(p) )
             => /\ resultado'[p].estado = "ok"
                /\ resultado'[p].dto.id = locales[p].usuario.id
                /\ resultado'[p].dto.nombre = locales[p].usuario.nombre
                /\ resultado'[p].dto.email = locales[p].usuario.email
                /\ resultado'[p].dto.fechaCreacion = locales[p].usuario.fechaCreacion ]_vars

\* a getById made after an update of the name has returned the new name,
\* which the store still holds
C21_Testigo ==
    \E p \in Procs :
        /\ pc[p] = "fin"
        /\ datos[p].op = "obtener"
        /\ resultado[p].estado = "ok"
        /\ resultado[p].dto.nombre = <<"c", "d">>
        /\ obtenerPorId(usuarios, datos[p].id).nombre = <<"c", "d">>

----------------------------------------------------------------------------
(* C22 *)

\* the kind of failure a step of slot p ends the call with, "" when it does
\* not end it with a failure
FallaCon(p) == IF pc'[p] = "fin" THEN resultado'[p].nombreError ELSE ""

\* the values the replacement of an update is validated with
InvalidoAlActualizar(p) ==
    validar(SiNoVacio(datos[p].nombre, locales[p].usuario.nombre),
            SiNoVacio(datos[p].email, locales[p].usuario.email)) # ""

\* C22: a create whose existence check answered true fails with
\* UsuarioDuplicadoError whether or not its name and email are valid, and
\* fails validation only when the check answered false; an update fails with
\* UsuarioNoEncontradoError when its fetch found nothing, whatever else the
\* request holds, otherwise with UsuarioDuplicadoError when its existence
\* check ran and answered true, whether or not the result would be valid, and
\* fails validation only when it was found and the duplicate check was
\* skipped or answered false.
C22_OrdenDeErrores ==
    [][ \A p \in Procs :
          /\ ( pc[p] = "a_existe" /\ Avanza(p) )
             => FallaCon(p) =
                    IF locales[p].existe THEN "UsuarioDuplicadoError"
                    ELSE IF validar(datos[p].nombre, datos[p].email) # "" THEN "Error"
                    ELSE ""
          /\ ( pc[p] = "u_obtenido" /\ Avanza(p) )
             => IF locales[p].usuario = Null
                THEN FallaCon(p) = "UsuarioNoEncontradoError"
                ELSE IF Truthy(datos[p].email) /\ datos[p].email # locales[p].usuario.email
                THEN pc'[p] = "u_existe"
                ELSE FallaCon(p) = IF InvalidoAlActualizar(p) THEN "Error" ELSE ""
          /\ ( pc[p] = "u_existe" /\ Avanza(p) )
             => FallaCon(p) =
                    IF locales[p].existe THEN "UsuarioDuplicadoError"
                    ELSE IF InvalidoAlActualizar(p) THEN "Error"
                    ELSE "" ]_vars

\* a create with an invalid name and a stored email has failed with
\* UsuarioDuplicadoError, and an update of an id that is not stored, with an
\* invalid name and a stored email, has failed with UsuarioNoEncontradoError
C22_Testigo ==
    \E p \in Procs : \E q \in Procs :
        /\ pc[p] = "fin" /\ datos[p].op = "agregar"
        /\ validar(datos[p].nombre, datos[p].email) # ""
        /\ resultado[p].nombreError = "UsuarioDuplicadoError"
        /\ pc[q] = "fin" /\ datos[q].op = "actualizar"
        /\ Truthy(datos[q].nombre) /\ Len(Trim(datos[q].nombre)) < 2
        /\ EmailGuardado(usuarios, datos[q].email)
        /\ resultado[q].nombreError = "UsuarioNoEncontradoError"

----------------------------------------------------------------------------
(* C23 *)

\* the records of the store that carry this id
RegistrosCon(us, id) == { r \in { us[i] : i \in 1..Len(us) } : r.id = id }

\* C23: guardar(u) leaves exactly u under u.id (what obtenerPorId(u.id) then
\* answers), changes no record of another id and raises the record count by
\* one iff u.id was absent; eliminar(id) answers true iff a record with that
\* id was stored, removes it and no other; existe(email) answers true iff
\* some stored record holds exactly that email.
C23_ContratoDelRepositorio ==
    [][ /\ datos'[1].op = "guardar"
           => LET u == locales'[1].nuevo IN
              /\ RegistrosCon(usuarios', u.id) = {u}
              /\ obtenerPorId(usuarios', u.id) = u
              /\ \A i \in IdsRepositorio \ {u.id} :
                     RegistrosCon(usuarios', i) = RegistrosCon(usuarios, i)
              /\ Len(usuarios') = IF RegistrosCon(usuarios, u.id) = {}
                                  THEN Len(usuarios) + 1 ELSE Len(usuarios)
        /\ datos'[1].op = "obtenerPorId"
           => /\ usuarios' = usuarios
              /\ IF RegistrosCon(usuarios, datos'[1].id) = {}
                 THEN locales'[1].usuario = Null
                 ELSE RegistrosCon(usuarios, datos'[1].id) = {locales'[1].usuario}
        /\ datos'[1].op = "eliminar"
           => LET id == datos'[1].id IN
              /\ locales'[1].eliminado <=> RegistrosCon(usuarios, id) # {}
              /\ RegistrosCon(usuarios', id) = {}
              /\ \A i \in IdsRepositorio \ {id} :
                     RegistrosCon(usuarios', i) = RegistrosCon(usuarios, i)
              /\ Len(usuarios') = IF RegistrosCon(usuarios, id) = {}
                                  THEN Len(usuarios) ELSE Len(usuarios) - 1
        /\ datos'[1].op = "existe"
           => /\ usuarios' = usuarios
              /\ locales'[1].existe
                    <=> \E i \in 1..Len(usuarios) : usuarios[i].email = datos'[1].email
      ]_vars

\* eliminar has answered true and left two records, both holding one email
C23_Testigo ==
    /\ datos[1].op = "eliminar"
    /\ locales[1].eliminado
    /\ Len(usuarios) = 2
    /\ usuarios[1].email = usuarios[2].email
    /\ datos[1].id \notin IdsDe(usuarios)

----------------------------------------------------------------------------
(* C24 *)

\* C24: when the use cases run one at a time and generated ids are fresh, no
\* two records of the store hold the same email, in any reachable state.
C24_EmailsDistintos ==
    \A i \in 1..Len(usuarios) : \A j \in 1..Len(usuarios) :
        i # j => usuarios[i].email # usuarios[j].email

\* the store holds two records and an update of one of them to the email of
\* the other has failed with UsuarioDuplicadoError
C24_Testigo ==
    /\ Len(usuarios) = 2
    /\ \E p \in Procs :
          /\ pc[p] = "fin" /\ datos[p].op = "actualizar"
          /\ resultado[p].nombreError = "UsuarioDuplicadoError"
          /\ \E i \in 1..2 :
                 usuarios[i].email = datos[p].email /\ usuarios[i].id # datos[p].id

----------------------------------------------------------------------------
(* C25 *)

\* a delete of this id has returned true
EliminadoConExito(id) ==
    \E q \in Procs :
        /\ pc[q] = "fin"
        /\ datos[q].op = "eliminar"
        /\ datos[q].id = id
        /\ resultado[q] = DevuelveBool(TRUE)

\* C25 as stated: once a delete of an id has returned true, the only step
\* that stores a record under that id again is the save of a create, even
\* when an update of that id had fetched the record before the delete.
C25_Original ==
    [][ \A id \in Ids :
          ( /\ EliminadoConExito(id)
            /\ id \notin IdsDe(usuarios)
            /\ id \in IdsDe(usuarios') )
          => \E p \in Procs : pc[p] = "a_existe" /\ pc'[p] = "a_guardado" ]_vars

----------------------------------------------------------------------------
(* C26 *)

\* slots p and q hold two updates of one id that have both returned, p's
\* request carrying only a name and q's only an email, each different from
\* the one of the record the update fetched
DosActualizacionesParciales(p, q) ==
    /\ p # q
    /\ pc[p] = "fin" /\ pc[q] = "fin"
    /\ datos[p].op = "actualizar" /\ datos[q].op = "actualizar"
    /\ datos[p].id = datos[q].id
    /\ resultado[p].estado = "ok" /\ resultado[q].estado = "ok"
    /\ Truthy(datos[p].nombre) /\ datos[p].email = Undefined
    /\ datos[q].nombre = Undefined /\ Truthy(datos[q].email)
    /\ datos[p].nombre # locales[p].usuario.nombre
    /\ datos[q].email # locales[q].usuario.email

\* C26 as stated: when two updates of the same id, one supplying only a new
\* name and the other only a new email, have both succeeded, the stored
\* record carries the new name and the new email.
C26_Original ==
    \A p \in Procs : \A q \in Procs :
        DosActualizacionesParciales(p, q)
        => /\ obtenerPorId(usuarios, datos[p].id).nombre = datos[p].nombre
           /\ obtenerPorId(usuarios, datos[p].id).email = datos[q].email

====
